---- MODULE Spec2Model ----
(***************************************************************************)
(* LumiTracker watcher: the match classifier (ActionCardHandler.Update),   *)
(* the temporal debounce filter (StreamFilter) and the tasks that drive    *)
(* them (CardPlayedTask, GameStartTask).                                   *)
(***************************************************************************)
EXTENDS Integers, Sequences, FiniteSets, TLC

VARIABLES
    threshold,          \* cfg.threshold
    strict_threshold,   \* cfg.strict_threshold
    search_a,           \* db.SearchByFeature(ahash, ACTIONS_A): [ids, dists]
    search_d,           \* db.SearchByFeature(dhash, ACTIONS_D): [ids, dists]
    ret,                \* what the last ActionCardHandler.Update returned
    task,               \* the task that owns the filter
    defaults,           \* StreamFilter.__init__'s default parameters
    filter,             \* the owner's StreamFilter object
    fed,                \* the samples passed to Filter since the filter was built
    out,                \* the value the last call of Filter returned
    event_type,         \* self.event_type.name / self.task_type.name
    resized,            \* OnResize has set the crop box and the buffers
    card_id_signal,     \* CardPlayedTask.card_id_signal
    logged,             \* the events the last handler call logged
    error,              \* the exception the last handler call raised, if any
    extras,             \* db["extras"]: the canonical id of each extra entry
    self_hash,          \* ImageHash.__sub__: self.hash, flattened
    other_hash,         \* ImageHash.__sub__: other.hash, flattened
    sub_ret,            \* the outcome of self - other
    rsub_ret,           \* the outcome of other - self
    client_width,       \* the width of the game client, in pixels
    client_height,      \* the height of the game client, in pixels
    ratio_ret,          \* the outcome of GetRatioType(client_width, client_height)
    ratio_type,         \* the ratio_type argument of the last OnResize
    crop_cfgs,          \* (cfg.action_crop_box0, action_crop_box1, action_crop_box2)
    card_handler,       \* CardPlayedTask.card_handler: an ActionCardHandler
    extract_ret,        \* the outcome of the last ExtractCardFeatures
    played,             \* the two CardPlayedTask objects, by event type
    select,             \* the CardSelectTask object
    schedule,           \* the calls the frame manager has still to make
    last                \* the last call made on a task and its outcome

update_vars == <<threshold, strict_threshold, search_a, search_d, ret>>
filter_vars == <<task, defaults, filter, fed, out>>
task_vars   == <<event_type, resized, card_id_signal, logged, error, extras>>

hash_vars   == <<self_hash, other_hash, sub_ret, rsub_ret>>

geometry_vars ==
    <<client_width, client_height, ratio_ret, ratio_type, crop_cfgs,
      card_handler, extract_ret>>

\* The variables of the specifications further down.
loop_vars == <<played, select, schedule, last>>

other_vars  == <<hash_vars, geometry_vars, loop_vars>>

vars == <<update_vars, filter_vars, task_vars, other_vars>>

(***************************************************************************)
(* Bounds of the model.                                                    *)
(***************************************************************************)
\* Entries of the action-card index (action cards, then extras); ids are
\* 0 .. NumCards - 1.
NumCards == 2
\* Largest Hamming distance a query returns.
MaxDist == 2
\* Neighbours one query returns (the code asks annoy for n = 20).
NResults == 2
\* Largest default window_size of a StreamFilter.
MaxWindow == 3
\* Ticks a filter is followed for after its window is full.
ExtraTicks == 1
\* Largest default window_size the task specification follows.
MaxTaskWindow == 2

Min(a, b) == IF a <= b THEN a ELSE b
Max(a, b) == IF a >= b THEN a ELSE b

CardIds == 0 .. (NumCards - 1)
Dists   == 0 .. MaxDist

(***************************************************************************)
(* Database.SearchByFeature: annoy's get_nns_by_vector returns the ids of  *)
(* the nearest entries, each entry once, with their distances in           *)
(* non-decreasing order.  The frame is not modelled, so the result is any  *)
(* such pair of lists.                                                     *)
(***************************************************************************)
SearchLen == Min(NResults, NumCards)

SearchByFeature ==
    { [ids |-> i, dists |-> d] :
        i \in { s \in [1 .. SearchLen -> CardIds] :
                  \A j, k \in 1 .. SearchLen : j # k => s[j] # s[k] },
        d \in { s \in [1 .. SearchLen -> Dists] :
                  \A j \in 1 .. (SearchLen - 1) : s[j] <= s[j + 1] } }

\* Python's seq[:n].
Prefix(s, n) == SubSeq(s, 1, Min(n, Len(s)))

(***************************************************************************)
(* ActionCardHandler.Update, from the two search results on: the dual      *)
(* threshold decision.  Python index 0 is index 1 here.                    *)
(***************************************************************************)
\* A faulty Update: the two strict tests in the other order.
UpdateSwapped(card_ids_a, dists_a, card_ids_d, dists_d, thr, strict) ==
    LET card_id_a == card_ids_a[1]
        card_id_d == card_ids_d[1]
        dist_a    == dists_a[1]
        dist_d    == dists_d[1]
        third     == <<Prefix(dists_a, 3), Prefix(dists_d, 3)>>
    IN  IF dist_a <= strict
          THEN [card_id |-> card_id_a, dist |-> dist_a, dists |-> third]
        ELSE IF dist_d <= strict
          THEN [card_id |-> card_id_d, dist |-> dist_d, dists |-> third]
        ELSE IF card_id_a = card_id_d /\ dist_a <= thr /\ dist_d <= thr
          THEN [card_id |-> card_id_a, dist |-> Min(dists_a[1], dists_d[1]),
                dists |-> third]
        ELSE [card_id |-> -1, dist |-> Max(dists_a[1], dists_d[1]),
              dists |-> third]

\* A faulty Update: the a-hash test uses the looser threshold and reports the
\* d-hash distance.
UpdateAStrictLoose(card_ids_a, dists_a, card_ids_d, dists_d, thr, strict) ==
    LET card_id_a == card_ids_a[1]
        card_id_d == card_ids_d[1]
        dist_a    == dists_a[1]
        dist_d    == dists_d[1]
        third     == <<Prefix(dists_a, 3), Prefix(dists_d, 3)>>
    IN  IF dist_d <= strict
          THEN [card_id |-> card_id_d, dist |-> dist_d, dists |-> third]
        ELSE IF dist_a <= thr
          THEN [card_id |-> card_id_a, dist |-> dist_d, dists |-> third]
        ELSE IF card_id_a = card_id_d /\ dist_a <= thr /\ dist_d <= thr
          THEN [card_id |-> card_id_a, dist |-> Min(dists_a[1], dists_d[1]),
                dists |-> third]
        ELSE [card_id |-> -1, dist |-> Max(dists_a[1], dists_d[1]),
              dists |-> third]

\* A faulty Update: the agreement rule asks for one distance within the
\* threshold only.
UpdateLooseOr(card_ids_a, dists_a, card_ids_d, dists_d, thr, strict) ==
    LET card_id_a == card_ids_a[1]
        card_id_d == card_ids_d[1]
        dist_a    == dists_a[1]
        dist_d    == dists_d[1]
        third     == <<Prefix(dists_a, 3), Prefix(dists_d, 3)>>
    IN  IF dist_d <= strict
          THEN [card_id |-> card_id_d, dist |-> dist_d, dists |-> third]
        ELSE IF dist_a <= strict
          THEN [card_id |-> card_id_a, dist |-> dist_a, dists |-> third]
        ELSE IF card_id_a = card_id_d /\ (dist_a <= thr \/ dist_d <= thr)
          THEN [card_id |-> card_id_a, dist |-> Min(dists_a[1], dists_d[1]),
                dists |-> third]
        ELSE [card_id |-> -1, dist |-> Max(dists_a[1], dists_d[1]),
              dists |-> third]

\* A faulty Update: a reject reports the smaller distance.
UpdateRejectMin(card_ids_a, dists_a, card_ids_d, dists_d, thr, strict) ==
    LET card_id_a == card_ids_a[1]
        card_id_d == card_ids_d[1]
        dist_a    == dists_a[1]
        dist_d    == dists_d[1]
        third     == <<Prefix(dists_a, 3), Prefix(dists_d, 3)>>
    IN  IF dist_d <= strict
          THEN [card_id |-> card_id_d, dist |-> dist_d, dists |-> third]
        ELSE IF dist_a <= strict
          THEN [card_id |-> card_id_a, dist |-> dist_a, dists |-> third]
        ELSE IF card_id_a = card_id_d /\ dist_a <= thr /\ dist_d <= thr
          THEN [card_id |-> card_id_a, dist |-> Min(dists_a[1], dists_d[1]),
                dists |-> third]
        ELSE [card_id |-> -1, dist |-> Min(dists_a[1], dists_d[1]),
              dists |-> third]

\* A faulty Update: the agreement rule accepts equal ids whatever the
\* distances.
UpdateAgreeIdOnly(card_ids_a, dists_a, card_ids_d, dists_d, thr, strict) ==
    LET card_id_a == card_ids_a[1]
        card_id_d == card_ids_d[1]
        dist_a    == dists_a[1]
        dist_d    == dists_d[1]
        third     == <<Prefix(dists_a, 3), Prefix(dists_d, 3)>>
    IN  IF dist_d <= strict
          THEN [card_id |-> card_id_d, dist |-> dist_d, dists |-> third]
        ELSE IF dist_a <= strict
          THEN [card_id |-> card_id_a, dist |-> dist_a, dists |-> third]
        ELSE IF card_id_a = card_id_d
          THEN [card_id |-> card_id_a, dist |-> Min(dists_a[1], dists_d[1]),
                dists |-> third]
        ELSE [card_id |-> -1, dist |-> Max(dists_a[1], dists_d[1]),
              dists |-> third]

Update(card_ids_a, dists_a, card_ids_d, dists_d, thr, strict) ==
    LET card_id_a == card_ids_a[1]
        card_id_d == card_ids_d[1]
        dist_a    == dists_a[1]
        dist_d    == dists_d[1]
        third     == <<Prefix(dists_a, 3), Prefix(dists_d, 3)>>
    IN  IF dist_d <= strict      \* dhash is more sensitive, so check it first
          THEN [card_id |-> card_id_d, dist |-> dist_d, dists |-> third]
        ELSE IF dist_a <= strict
          THEN [card_id |-> card_id_a, dist |-> dist_a, dists |-> third]
        ELSE IF card_id_a = card_id_d /\ dist_a <= thr /\ dist_d <= thr
          THEN [card_id |-> card_id_a, dist |-> Min(dists_a[1], dists_d[1]),
                dists |-> third]
        ELSE [card_id |-> -1, dist |-> Max(dists_a[1], dists_d[1]),
              dists |-> third]

(***************************************************************************)
(* StreamFilter, the temporal debounce filter.  A filter is its four       *)
(* parameters, the sliding window of (value, dist) samples and the current *)
(* stable output prev_value.                                               *)
(***************************************************************************)
StreamFilter(null_val, window_size, valid_count, window_min_count) ==
    [null_val         |-> null_val,
     window_size      |-> window_size,
     valid_count      |-> valid_count,
     window_min_count |-> window_min_count,
     window           |-> <<>>,
     prev_value       |-> null_val]

\* The defaults of window_size, valid_count and window_min_count: any small
\* setting under which a value can become stable.
DefaultChoices ==
    { d \in [window_size : 1 .. MaxWindow, valid_count : 1 .. MaxWindow,
             window_min_count : 1 .. MaxWindow] :
        d.valid_count <= d.window_size /\ d.window_min_count <= d.window_size }

\* Push a sample into the window, evicting the oldest beyond window_size.
Push(window, sample, window_size) ==
    LET w == Append(window, sample)
    IN  IF Len(w) > window_size THEN Tail(w) ELSE w

\* Occurrences of value v in the window.
Count(window, v) == Cardinality({ i \in DOMAIN window : window[i][1] = v })

\* The most frequent non-null values of the window (several on a tie, none
\* when every sample is null).
MostFrequent(window, null_val) ==
    LET values == { window[i][1] : i \in DOMAIN window } \ { null_val }
    IN  { v \in values : \A u \in values : Count(window, u) <= Count(window, v) }

\* StreamFilter.Filter(value, dist): the possible outcomes of one call, each
\* the filter after the call and the value returned.  The stable value is
\* returned on the call that makes it stable and the null value otherwise.
\* Which of several equally frequent values wins is left open.
Filter(f, value, dist) ==
    LET w    == Push(f.window, <<value, dist>>, f.window_size)
        best == MostFrequent(w, f.null_val)
    IN  IF Len(w) < f.window_min_count
          THEN { [filter |-> [f EXCEPT !.window = w], out |-> f.null_val] }
        ELSE IF \A v \in best : Count(w, v) < f.valid_count
          THEN { [filter |-> [f EXCEPT !.window = w, !.prev_value = f.null_val],
                  out    |-> f.null_val] }
        ELSE { [filter |-> [f EXCEPT !.window = w, !.prev_value = v],
                out    |-> IF v # f.prev_value THEN v ELSE f.null_val] :
               v \in best }

\* In a specification without a filter the filter variables stay put.
NoFilter == StreamFilter(-1, 0, 0, 0)
FilterUnused ==
    /\ task = "ActionCardHandler"
    /\ defaults = [window_size |-> 0, valid_count |-> 0, window_min_count |-> 0]
    /\ filter = NoFilter
    /\ fed = <<>>
    /\ out = -1

\* In a specification without a task the task variables stay put.
TaskUnused ==
    /\ event_type = "None"
    /\ resized = FALSE
    /\ card_id_signal = -1
    /\ logged = <<>>
    /\ error = "None"
    /\ extras = <<>>

\* The outcome of a call that has not been made.
NotCalled == [raised |-> "NotCalled", value |-> -1]

\* In a specification without hashes the hash variables stay put.
HashUnused ==
    /\ self_hash = <<>>
    /\ other_hash = <<>>
    /\ sub_ret = NotCalled
    /\ rsub_ret = NotCalled

\* ActionCardHandler.__init__: crop_box and feature_buffer are None (here the
\* empty sequence, a value being a sequence of one) and feature_crops is not
\* set yet.
ActionCardHandler ==
    [crop_box |-> <<>>, feature_crops |-> <<>>, feature_buffer |-> <<>>]

\* GetRatioType and ExtractCardFeatures have not been called.
NoRatio   == [raised |-> "NotCalled", ratio_type |-> "None", logged |-> <<>>]
NoExtract == [raised |-> "NotCalled", cells |-> <<>>, sources |-> <<>>]

\* In a specification without geometry the geometry variables stay put.
GeometryUnused ==
    /\ client_width = 0
    /\ client_height = 0
    /\ ratio_ret = NoRatio
    /\ ratio_type = "None"
    /\ crop_cfgs = <<>>
    /\ card_handler = ActionCardHandler
    /\ extract_ret = NoExtract

\* No call has been made on a task.
NoCall ==
    [task |-> "None", op |-> "None", failure |-> "None", raised |-> "None",
     num_bboxes |-> 0, samples |-> <<>>, extracted |-> <<>>,
     need_reset |-> FALSE]

\* In a specification without the frame loop its variables stay put.
LoopUnused ==
    /\ played = <<>>
    /\ select = <<>>
    /\ schedule = <<>>
    /\ last = NoCall

OtherUnused == HashUnused /\ GeometryUnused /\ LoopUnused

\* Before the call returns there is no return value.
NoReturn == [card_id |-> -1, dist |-> 0, dists |-> <<<<>>, <<>>>>]

(***************************************************************************)
(* The classifier on its own.  Update keeps nothing from one call to the   *)
(* next, so one call is checked for every configuration and every frame:   *)
(* the configuration holds any two thresholds and the frame, seen through  *)
(* the two indices, is any pair of search results.                         *)
(***************************************************************************)
InitUpdate ==
    /\ threshold \in Dists
    /\ strict_threshold \in Dists
    /\ search_a \in SearchByFeature
    /\ search_d \in SearchByFeature
    /\ ret = NoReturn
    /\ FilterUnused
    /\ TaskUnused
    /\ OtherUnused

CallUpdate ==
    /\ ret = NoReturn
    /\ ret' = Update(search_a.ids, search_a.dists, search_d.ids, search_d.dists,
                     threshold, strict_threshold)
    /\ UNCHANGED <<threshold, strict_threshold, search_a, search_d>>
    /\ UNCHANGED filter_vars
    /\ UNCHANGED task_vars
    /\ UNCHANGED other_vars

NextUpdate == CallUpdate

SpecUpdate == InitUpdate /\ [][NextUpdate]_vars

\* In a specification without a classifier its variables stay put.
UpdateUnused ==
    /\ threshold = 0
    /\ strict_threshold = 0
    /\ search_a = [ids |-> <<>>, dists |-> <<>>]
    /\ search_d = [ids |-> <<>>, dists |-> <<>>]
    /\ ret = NoReturn

\* The values Update's branch conditions read, after a call.
Called    == ret # NoReturn
card_id_a == search_a.ids[1]
card_id_d == search_d.ids[1]
dist_a    == search_a.dists[1]
dist_d    == search_d.dists[1]

\* C1: whenever the best d-hash distance is <= strict_threshold, Update
\* returns the d-hash nearest id and the d-hash distance, whatever the a-hash
\* id and distance are.
C1_DHashFirst ==
    (Called /\ dist_d <= strict_threshold)
        => (ret.card_id = card_id_d /\ ret.dist = dist_d)

\* C1's case: both distances within strict_threshold, the ids differ, and
\* the a-hash distance is the smaller one.
C1_Witness ==
    /\ Called
    /\ dist_d <= strict_threshold
    /\ dist_a < dist_d
    /\ card_id_a # card_id_d
    /\ ret.card_id = card_id_d

\* C2: when the d-hash distance is > strict_threshold and the a-hash
\* distance is <= strict_threshold, Update returns the a-hash nearest id and
\* the a-hash distance, whatever the d-hash id and however large the d-hash
\* distance.
C2_AHashSecond ==
    (Called /\ dist_d > strict_threshold /\ dist_a <= strict_threshold)
        => (ret.card_id = card_id_a /\ ret.dist = dist_a)

\* C2's case: the d-hash distance exceeds even the looser threshold and the
\* ids differ.
C2_Witness ==
    /\ Called
    /\ dist_a <= strict_threshold
    /\ strict_threshold < threshold
    /\ dist_d > threshold
    /\ card_id_a # card_id_d
    /\ ret.card_id = card_id_a

\* C3: when both distances are > strict_threshold, an id is accepted if and
\* only if the two ids are equal and both distances are <= threshold; the
\* accepted id is the shared one and the reported distance is the minimum of
\* the two distances.
C3_AgreementRule ==
    (Called /\ dist_d > strict_threshold /\ dist_a > strict_threshold)
        => /\ (ret.card_id # -1)
                <=> (card_id_a = card_id_d /\ dist_a <= threshold
                                           /\ dist_d <= threshold)
           /\ (ret.card_id # -1)
                => (ret.card_id = card_id_a /\ ret.card_id = card_id_d
                    /\ ret.dist = Min(dist_a, dist_d))

\* C3's case: the shared id accepted by agreement, with unequal distances.
C3_Witness ==
    /\ Called
    /\ dist_d > strict_threshold
    /\ dist_a > strict_threshold
    /\ dist_a # dist_d
    /\ ret.card_id = card_id_a
    /\ ret.card_id = card_id_d

\* C4: when both distances are > strict_threshold and the ids differ or a
\* distance is > threshold, Update returns id -1 with the maximum of the two
\* distances; the result is a returned value.
C4_Reject ==
    (Called /\ dist_d > strict_threshold /\ dist_a > strict_threshold
            /\ (card_id_a # card_id_d \/ dist_a > threshold
                                      \/ dist_d > threshold))
        => (ret.card_id = -1 /\ ret.dist = Max(dist_a, dist_d))

\* C4's case: equal ids rejected because one distance alone exceeds the
\* threshold.
C4_Witness ==
    /\ Called
    /\ card_id_a = card_id_d
    /\ dist_a > strict_threshold
    /\ dist_a <= threshold
    /\ dist_d > threshold
    /\ ret.card_id = -1
    /\ ret.dist = dist_d

(***************************************************************************)
(* A filter and the task that owns it.  CardSelectTask builds each of its  *)
(* filters with explicit parameters, CardPlayedTask builds its filter with *)
(* the defaults; a tick of the owner passes one sample to Filter and Reset *)
(* replaces the filter by a new one.                                       *)
(***************************************************************************)
\* A faulty parameter list: window_min_count = 5.
CardSelectFilterMin5 == StreamFilter(-1, 10, 1, 5)

\* A faulty parameter list: valid_count = 2.
CardSelectFilterValid2 == StreamFilter(-1, 10, 2, 6)

\* A faulty parameter list: window_min_count left out of the call.
CardSelectFilterNoMin == StreamFilter(-1, 10, 1, 1)

\* CardSelectTask._Reset: one of self.filters.
CardSelectFilter == StreamFilter(-1, 10, 1, 6)

\* CardPlayedTask.Reset: StreamFilter(null_val=-1), the rest by default.
CardPlayedFilter(d) ==
    StreamFilter(-1, d.window_size, d.valid_count, d.window_min_count)

NewFilter(t, d) ==
    IF t = "CardSelectTask" THEN CardSelectFilter ELSE CardPlayedFilter(d)

\* The samples a tick may pass: no match, or one of two cards.
Samples == { <<-1, 2>>, <<3, 0>>, <<4, 1>> }

\* CardSelectTask passes every parameter, so the defaults are not read there.
InitFilter ==
    /\ task \in { "CardSelectTask", "CardPlayedTask" }
    /\ defaults \in IF task = "CardSelectTask"
                     THEN { CHOOSE d \in DefaultChoices : TRUE }
                     ELSE DefaultChoices
    /\ filter = NewFilter(task, defaults)
    /\ fed = <<>>
    /\ out = filter.null_val
    /\ UpdateUnused
    /\ TaskUnused
    /\ OtherUnused

\* A faulty tick: the sample's distance is not passed on (dist defaults to 0).
FilterTickNoDist ==
    /\ Len(fed) < filter.window_size + ExtraTicks
    /\ \E s \in Samples : \E r \in Filter(filter, s[1], 0) :
        /\ filter' = r.filter
        /\ fed'    = Append(fed, s)
        /\ out'    = r.out
    /\ UNCHANGED <<task, defaults>>
    /\ UNCHANGED update_vars
    /\ UNCHANGED other_vars
    /\ UNCHANGED task_vars

\* One tick of the owner: card_id = self.filter.Filter(card_id, dist=dist).
FilterTick ==
    /\ Len(fed) < filter.window_size + ExtraTicks
    /\ \E s \in Samples : \E r \in Filter(filter, s[1], s[2]) :
        /\ filter' = r.filter
        /\ fed'    = Append(fed, s)
        /\ out'    = r.out
    /\ UNCHANGED <<task, defaults>>
    /\ UNCHANGED update_vars
    /\ UNCHANGED other_vars
    /\ UNCHANGED task_vars

\* A faulty Reset: the old filter object is kept.
FilterResetKeepsFilter ==
    /\ fed # <<>>
    /\ fed' = <<>>
    /\ out' = filter.null_val
    /\ UNCHANGED <<task, defaults, filter>>
    /\ UNCHANGED update_vars
    /\ UNCHANGED other_vars
    /\ UNCHANGED task_vars

\* Reset of the owner: the filter is replaced by a new one.
FilterReset ==
    /\ fed # <<>>
    /\ filter' = NewFilter(task, defaults)
    /\ fed' = <<>>
    /\ out' = filter.null_val
    /\ UNCHANGED <<task, defaults>>
    /\ UNCHANGED update_vars
    /\ UNCHANGED other_vars
    /\ UNCHANGED task_vars

NextFilter == FilterTick \/ FilterReset

SpecFilter == InitFilter /\ [][NextFilter]_vars

\* Values and stable output of the filter under observation.
null_val  == filter.null_val
Values(s) == [i \in DOMAIN s |-> s[i][1]]
Ticks     == Len(fed)

\* C5: the filter CardSelectTask builds (window_size=10, valid_count=1,
\* window_min_count=6), fed the same non-null value v on every tick since it
\* was built, returns null on ticks 1..5, v on tick 6 and null on every later
\* tick: v is reported exactly once.
C5_ReportedOnce ==
    (task = "CardSelectTask" /\ Ticks >= 1
        /\ \E v \in { 3, 4 } : \A i \in DOMAIN fed : fed[i][1] = v)
    => out = IF Ticks = 6 THEN fed[1][1] ELSE null_val

\* C5's case: the window is full of 3s, the oldest has been evicted, 3 is
\* the stable value and the call returned null.
C5_Witness ==
    /\ task = "CardSelectTask"
    /\ Ticks = 11
    /\ \A i \in DOMAIN fed : fed[i][1] = 3
    /\ filter.prev_value = 3
    /\ out = null_val

Scenario == <<-1, -1, -1, -1, -1, 3>>

InScenario ==
    /\ task = "CardSelectTask"
    /\ Ticks <= Len(Scenario)
    /\ Values(fed) = SubSeq(Scenario, 1, Ticks)

C9_NullBeforeMinCount ==
    (Ticks >= 1 /\ Ticks < filter.window_min_count)
        => (out = null_val /\ filter.prev_value = null_val)

\* C9's case: a filter with window_min_count = 3 and valid_count = 1 fed the
\* non-null value 3 twice: one call short of window_min_count, null returned.
C9_Witness ==
    /\ task = "CardPlayedTask"
    /\ filter.window_min_count = 3
    /\ filter.valid_count = 1
    /\ Ticks = 2
    /\ Values(fed) = <<3, 3>>
    /\ out = null_val

\* C10: the window holds at most window_size samples, and they are the
\* most recent samples passed to Filter, in arrival order.
C10_SlidingWindow ==
    /\ Len(filter.window) <= filter.window_size
    /\ Len(filter.window) = Min(Ticks, filter.window_size)
    /\ filter.window = SubSeq(fed, Ticks - Len(filter.window) + 1, Ticks)

\* C10's case: CardSelectTask's window of 10 after 11 samples, the first of
\* them evicted.
C10_Witness ==
    /\ task = "CardSelectTask"
    /\ Ticks = 11
    /\ Len(filter.window) = 10
    /\ fed[1] # fed[2]
    /\ filter.window[1] = fed[2]


(***************************************************************************)
(* CardPlayedTask and GameStartTask.  Each owns one filter built with the  *)
(* defaults.  A tick classifies the frame, passes the result through the   *)
(* filter and logs an event when the filter returns a non-null value.      *)
(***************************************************************************)
\* The (card_id, dist) pairs Update can return under each pair of
\* thresholds, over every pair of search results.
UpdateReturns ==
    [thr \in Dists, strict \in Dists |->
        { <<u.card_id, u.dist>> :
            u \in { Update(sa.ids, sa.dists, sd.ids, sd.dists, thr, strict) :
                      sa \in SearchByFeature, sd \in SearchByFeature } }]

\* Database._UpdateActionCards: the index holds the hashes of the action
\* cards followed by those of the extras, so db["actions"] has one entry for
\* each index entry that is not an extra.
num_actions == NumCards - Len(extras)

\* CardName(card_id, db): the name db["actions"] holds for the card.  The
\* lookup db["actions"][card_id] raises IndexError past the end of the list.
CardNameRaises(card_id) == card_id >= num_actions

CardName(card_id) ==
    IF card_id >= 0 THEN <<"actions", card_id, "zh-HANS">> ELSE <<"None">>

\* GameStartTask.__init__: StreamFilter(null_val=False).
GameStartFilter(d) ==
    StreamFilter(FALSE, d.window_size, d.valid_count, d.window_min_count)

\* The tasks run under a configuration in which every branch of Update can be
\* taken: strict_threshold < threshold < the largest distance.  GameStartTask
\* does not read strict_threshold.
TaskThresholds ==
    { t \in Dists \X Dists : t[2] < t[1] /\ t[1] < MaxDist }

TaskDefaults == { d \in DefaultChoices : d.window_size <= MaxTaskWindow }

InitTask ==
    /\ task \in { "CardPlayedTask", "GameStartTask" }
    /\ event_type \in IF task = "CardPlayedTask"
                       THEN { "MY_PLAYED", "OP_PLAYED" }
                       ELSE { "GAME_START" }
    /\ \E t \in TaskThresholds :
        /\ threshold = t[1]
        /\ strict_threshold = IF task = "CardPlayedTask" THEN t[2] ELSE 0
    /\ defaults \in TaskDefaults
    /\ filter = IF task = "CardPlayedTask"
                  THEN CardPlayedFilter(defaults)
                  ELSE GameStartFilter(defaults)
    /\ extras \in { <<>>, <<0>> }
    /\ resized = FALSE
    /\ card_id_signal = -1
    /\ logged = <<>>
    /\ error = "None"
    /\ fed = <<>>
    /\ out = -1
    /\ search_a = [ids |-> <<>>, dists |-> <<>>]
    /\ search_d = [ids |-> <<>>, dists |-> <<>>]
    /\ ret = NoReturn
    /\ OtherUnused

\* OnResize: the crop box and the buffers are set for the client size.
OnResize ==
    /\ resized' = TRUE
    /\ logged' = <<>>
    /\ error' = "None"
    /\ UNCHANGED <<event_type, card_id_signal, extras>>
    /\ UNCHANGED filter_vars
    /\ UNCHANGED update_vars
    /\ UNCHANGED other_vars

\* A tick before the first OnResize: the crop box is not set, the read of
\* the frame raises and the tick ends there.
TickBeforeResize ==
    /\ ~resized
    /\ logged' = <<>>
    /\ error' = "AttributeError"
    /\ UNCHANGED <<event_type, resized, card_id_signal, extras>>
    /\ UNCHANGED filter_vars
    /\ UNCHANGED update_vars
    /\ UNCHANGED other_vars

\* CardPlayedTask.Tick.  The name lookup runs while the arguments of LogInfo
\* are built, so when it raises nothing is logged and the tick ends with the
\* exception.
PlayedTick ==
    /\ task = "CardPlayedTask"
    /\ resized
    /\ \E u \in UpdateReturns[threshold, strict_threshold] :
       \E r \in Filter(filter, u[1], u[2]) :
        /\ filter' = r.filter
        /\ out' = r.out
        /\ card_id_signal' = r.out
        /\ IF r.out >= 0 /\ ~CardNameRaises(r.out)
             THEN /\ logged' = << [type    |-> event_type,
                                   card_id |-> r.out,
                                   name    |-> CardName(r.out)] >>
                  /\ error' = "None"
             ELSE /\ logged' = <<>>
                  /\ error' = IF r.out >= 0 THEN "IndexError" ELSE "None"
    /\ UNCHANGED <<task, defaults, fed, event_type, resized, extras>>
    /\ UNCHANGED update_vars
    /\ UNCHANGED other_vars

\* CardPlayedTask.Reset.
PlayedReset ==
    /\ task = "CardPlayedTask"
    /\ filter' = CardPlayedFilter(defaults)
    /\ out' = -1
    /\ logged' = <<>>
    /\ error' = "None"
    /\ UNCHANGED <<task, defaults, fed, event_type, resized, card_id_signal, extras>>
    /\ UNCHANGED update_vars
    /\ UNCHANGED other_vars

\* GameStartTask.Tick: the distance to the GameStart control decides start.
GameStartTick ==
    /\ task = "GameStartTask"
    /\ resized
    /\ \E dist \in Dists :
       LET start == (dist <= threshold)
       IN  \E r \in Filter(filter, start, 0) :
            /\ filter' = r.filter
            /\ logged' = IF r.out THEN << [type |-> event_type] >> ELSE <<>>
    /\ error' = "None"
    /\ UNCHANGED <<task, defaults, fed, out, event_type, resized, card_id_signal, extras>>
    /\ UNCHANGED update_vars
    /\ UNCHANGED other_vars

NextTask ==
    OnResize \/ TickBeforeResize \/ PlayedTick \/ PlayedReset \/ GameStartTick

SpecTask == InitTask /\ [][NextTask]_vars

\* The filter's stable output changes to a non-null value in this step.
StableTransition ==
    /\ filter'.prev_value # filter.prev_value
    /\ filter'.prev_value # filter'.null_val

\* C6: every step of CardPlayedTask or GameStartTask logs one event when
\* the filter makes a transition to a non-null stable value in that step and
\* none otherwise, so over any run the events logged are as many as the
\* transitions; a played-card event carries the new stable value.
C6_EventPerTransition ==
    [][ /\ Len(logged') = IF StableTransition THEN 1 ELSE 0
        /\ (task = "CardPlayedTask" /\ logged' # <<>>)
              => logged'[1].card_id = filter'.prev_value
      ]_vars

(***************************************************************************)
(* Hash distance.  A hash is a numpy array of booleans; __sub__ flattens   *)
(* both operands, so a hash is modelled by its flattened bits.  One hash   *)
(* pair is drawn and the distance is taken in both directions, once as     *)
(* self - other and once through FeatureDistance(other, self).             *)
(***************************************************************************)
\* Largest number of bits of a hash.
MaxBits == 3

Hashes == UNION { [1 .. n -> BOOLEAN] : n \in 0 .. MaxBits }

\* np.count_nonzero of a flattened boolean array.
RECURSIVE count_nonzero(_)
count_nonzero(arr) ==
    IF arr = <<>> THEN 0
    ELSE (IF Head(arr) THEN 1 ELSE 0) + count_nonzero(Tail(arr))

\* A faulty __sub__: the comparison is == instead of !=.
ImageHash_subCountEqual(self, other) ==
    IF Len(self) # Len(other)
      THEN [raised |-> "TypeError", value |-> -1]
    ELSE [raised |-> "None",
          value  |-> count_nonzero([i \in DOMAIN self |-> self[i] = other[i]])]

\* A faulty __sub__: no size test, the bits are compared as far as the
\* shorter hash goes.
ImageHash_subNoSizeTest(self, other) ==
    LET n == Min(Len(self), Len(other))
    IN  [raised |-> "None",
         value  |-> count_nonzero([i \in 1 .. n |-> self[i] # other[i]])]

\* ImageHash.__sub__(self, other), other an ImageHash: the outcome is the
\* exception raised, if any, and the number returned (-1: none).
ImageHash_sub(self, other) ==
    IF Len(self) # Len(other)
      THEN [raised |-> "TypeError", value |-> -1]
    ELSE [raised |-> "None",
          value  |-> count_nonzero([i \in DOMAIN self |-> self[i] # other[i]])]

\* FeatureDistance(feature1, feature2): ImageHash(feature1) - ImageHash(feature2).
FeatureDistance(feature1, feature2) == ImageHash_sub(feature1, feature2)

InitHash ==
    /\ self_hash \in Hashes
    /\ other_hash \in Hashes
    /\ sub_ret = NotCalled
    /\ rsub_ret = NotCalled
    /\ UpdateUnused
    /\ FilterUnused
    /\ TaskUnused
    /\ GeometryUnused
    /\ LoopUnused

\* self - other.
CallSub ==
    /\ sub_ret = NotCalled
    /\ sub_ret' = ImageHash_sub(self_hash, other_hash)
    /\ UNCHANGED <<self_hash, other_hash, rsub_ret>>
    /\ UNCHANGED <<update_vars, filter_vars, task_vars, geometry_vars, loop_vars>>

\* FeatureDistance(other, self).
CallFeatureDistance ==
    /\ rsub_ret = NotCalled
    /\ rsub_ret' = FeatureDistance(other_hash, self_hash)
    /\ UNCHANGED <<self_hash, other_hash, sub_ret>>
    /\ UNCHANGED <<update_vars, filter_vars, task_vars, geometry_vars, loop_vars>>

NextHash == CallSub \/ CallFeatureDistance

SpecHash == InitHash /\ [][NextHash]_vars

\* The positions at which two hashes of equal length differ.
DifferingBits(a, b) == { i \in DOMAIN a : a[i] # b[i] }

\* C18: for hashes of equal bit length, a distance that has been taken is a
\* returned number equal to the number of differing bits, it lies in
\* 0 .. bit length, the two directions agree, and the distance of a hash to
\* itself is 0.
C18_HammingDistance ==
    Len(self_hash) = Len(other_hash)
    => /\ \A r \in { sub_ret, rsub_ret } \ { NotCalled } :
            /\ r.raised = "None"
            /\ r.value = Cardinality(DifferingBits(self_hash, other_hash))
            /\ r.value \in 0 .. Len(self_hash)
            /\ self_hash = other_hash => r.value = 0
       /\ (sub_ret # NotCalled /\ rsub_ret # NotCalled)
            => sub_ret.value = rsub_ret.value

\* C18's case: two different hashes of the same length that share a bit,
\* their distance taken in both directions.
C18_Witness ==
    /\ Len(self_hash) = Len(other_hash)
    /\ sub_ret # NotCalled
    /\ rsub_ret # NotCalled
    /\ sub_ret.value = rsub_ret.value
    /\ sub_ret.value >= 1
    /\ sub_ret.value < Len(self_hash)

\* C19: on hashes of different bit length every call raises TypeError and
\* returns no number, and no call changes an operand.
C19_ShapeMismatch ==
    [][ /\ self_hash' = self_hash
        /\ other_hash' = other_hash
        /\ Len(self_hash) # Len(other_hash)
            => \A r \in { sub_ret', rsub_ret' } \ { NotCalled } :
                  r.raised = "TypeError" /\ r.value = -1
      ]_vars

\* C19's case: hashes of 2 and 3 bits that agree on the first two bits, both
\* calls made and both failed.
C19_Witness ==
    /\ Len(self_hash) = 2
    /\ Len(other_hash) = 3
    /\ self_hash = SubSeq(other_hash, 1, 2)
    /\ sub_ret.raised = "TypeError"
    /\ rsub_ret.raised = "TypeError"

(***************************************************************************)
(* The region resolver.  GetRatioType compares client_width/client_height  *)
(* with the five nominal ratios in IEEE-754 double precision.  The model   *)
(* works on integers: when abs(w/h - p/q) differs from EPSILON in exact    *)
(* arithmetic, it differs by at least 1/(200 * q * h), far more than the   *)
(* rounding errors of the doubles, and the exact comparison                *)
(* 1000 * |q*w - p*h| < 5 * q * h decides; when the two are equal in exact *)
(* arithmetic, the rounding errors of w/h, p/q and 0.005 decide.           *)
(***************************************************************************)
\* Largest side of the small client sizes drawn.
MaxSide == 16

Abs(x) == IF x < 0 THEN -x ELSE x

\* EPSILON = 0.005.
EPSILON == [num |-> 5, den |-> 1000]

\* The resolutions the comments of REGIONS name, with 1920 x 1080 first, and
\* one of ratio 3.0.
NamedSizes ==
    { <<1920, 1080>>, <<2560, 1440>>, <<1920, 1200>>, <<1680, 1050>>,
      <<2560, 1080>>, <<2048, 864>>, <<3440, 1440>>, <<2150, 900>>,
      <<3840, 1600>>, <<1920, 800>>, <<3240, 1080>> }

\* Client sizes whose ratio is a nominal ratio plus or minus 0.005 exactly:
\* 1926 x 1200 (1.605), 1914 x 1200 (1.595) and one of each of the other
\* eight ratios, in lowest terms.
EdgeSizes ==
    { <<1926, 1200>>, <<1914, 1200>>, <<3209, 1800>>, <<3191, 1800>>,
      <<12827, 5400>>, <<12773, 5400>>, <<4309, 1800>>, <<4291, 1800>>,
      <<481, 200>>, <<479, 200>> }

\* The client sizes drawn: the named ones, the ones at the edge of a window
\* and every small one, a side of 0 (a minimised window) included.
ClientSizes ==
    NamedSizes \cup EdgeSizes \cup ((0 .. MaxSide) \X (0 .. MaxSide))

\* ERatioType and the nominal ratio p/q of each bucket, in the order of the
\* tests of GetRatioType.
RatioTypes == { "E16_9", "E16_10", "E64_27", "E43_18", "E12_5" }

Nominal ==
    [E16_9  |-> <<16, 9>>,  E16_10 |-> <<16, 10>>, E64_27 |-> <<64, 27>>,
     E43_18 |-> <<43, 18>>, E12_5  |-> <<12, 5>>]

RECURSIVE GCD(_, _)
GCD(a, b) == IF b = 0 THEN a ELSE GCD(b, a % b)

\* 2^k mod m.
RECURSIVE Pow2Mod(_, _)
Pow2Mod(k, m) == IF k = 0 THEN 1 % m ELSE (2 * Pow2Mod(k - 1, m)) % m

\* The fraction bits of a double: a double in [2^b, 2^(b+1)) is a multiple
\* of 2^(b - 52).
FractionBits == 52

\* The error of rounding 2^k * n / d to the nearest integer, in units of
\* 1/d (the rounded value less the exact one).  For d below 2^k the exact
\* value is never half-way between two integers.
RoundErr(n, d, k) ==
    LET r == (Pow2Mod(k, d) * (n % d)) % d
    IN  IF 2 * r < d THEN -r ELSE d - r

\* The j with 2^(-j) <= eps < 2^(1-j), for eps < 1.
RECURSIVE EpsExp(_, _)
EpsExp(eps, j) ==
    IF eps.num * (2 ^ j) >= eps.den THEN j ELSE EpsExp(eps, j + 1)

\* abs(ratio - p / q) < eps in double arithmetic, for ratio = w / h, h > 0,
\* at a ratio w/h that is p/q + eps or p/q - eps exactly.  w/h and p/q lie in
\* the same binade [2^b, 2^(b+1)), b being 0 or 1 for the nominal ratios, so
\* their doubles are subtracted without error and the test compares the
\* rounding errors of the two quotients with the rounding error of eps.
WithinAtEdge(w, h, pq, eps) ==
    LET g  == GCD(w, h)
        wr == w \div g
        hr == h \div g
        ge == GCD(eps.num, eps.den)
        en == eps.num \div ge
        ed == eps.den \div ge
        b  == IF wr < 2 * hr THEN 0 ELSE 1
        j  == EpsExp(eps, 0)
        L  == (hr * pq[2]) \div GCD(hr, pq[2])
        e1 == RoundErr(wr, hr, FractionBits - b) * (L \div hr)
        e2 == RoundErr(pq[1], pq[2], FractionBits - b) * (L \div pq[2])
        e3 == RoundErr(en, ed, FractionBits + j)
        s  == IF pq[2] * w > pq[1] * h THEN 1 ELSE -1
    IN  s * (e1 - e2) * ed * (2 ^ (j + b)) < e3 * L

\* abs(ratio - p / q) < eps as the doubles decide it, for ratio = w / h and
\* h > 0.
Within(w, h, pq, eps) ==
    LET delta == eps.den * Abs(pq[2] * w - pq[1] * h) - eps.num * pq[2] * h
    IN  IF delta # 0 THEN delta < 0 ELSE WithinAtEdge(w, h, pq, eps)

\* A faulty GetRatioType: EPSILON = 0.05.
GetRatioTypeWideEpsilon(w, h) ==
    LET eps == [num |-> 5, den |-> 100]
        Bucket(rt) == [raised |-> "None", ratio_type |-> rt, logged |-> <<>>]
    IN  IF h = 0
          THEN [raised |-> "ZeroDivisionError", ratio_type |-> "None",
                logged |-> <<>>]
        ELSE IF Within(w, h, Nominal.E16_9, eps)  THEN Bucket("E16_9")
        ELSE IF Within(w, h, Nominal.E16_10, eps) THEN Bucket("E16_10")
        ELSE IF Within(w, h, Nominal.E64_27, eps) THEN Bucket("E64_27")
        ELSE IF Within(w, h, Nominal.E43_18, eps) THEN Bucket("E43_18")
        ELSE IF Within(w, h, Nominal.E12_5, eps)  THEN Bucket("E12_5")
        ELSE [raised |-> "None", ratio_type |-> "E16_9",
              logged |-> << [type |-> "UNSUPPORTED_RATIO",
                             client_width |-> w, client_height |-> h] >>]

\* GetRatioType(client_width, client_height): the exception raised, if any,
\* the bucket returned and the events logged.  The division raises
\* ZeroDivisionError for client_height = 0.
GetRatioType(w, h) ==
    LET Bucket(rt) == [raised |-> "None", ratio_type |-> rt, logged |-> <<>>]
    IN  IF h = 0
          THEN [raised |-> "ZeroDivisionError", ratio_type |-> "None",
                logged |-> <<>>]
        ELSE IF Within(w, h, Nominal.E16_9, EPSILON)  THEN Bucket("E16_9")
        ELSE IF Within(w, h, Nominal.E16_10, EPSILON) THEN Bucket("E16_10")
        ELSE IF Within(w, h, Nominal.E64_27, EPSILON) THEN Bucket("E64_27")
        ELSE IF Within(w, h, Nominal.E43_18, EPSILON) THEN Bucket("E43_18")
        ELSE IF Within(w, h, Nominal.E12_5, EPSILON)  THEN Bucket("E12_5")
        ELSE [raised |-> "None", ratio_type |-> "E16_9",
              logged |-> << [type |-> "UNSUPPORTED_RATIO",
                             client_width |-> w, client_height |-> h] >>]

\* In a specification without the resize the handler variables stay put.
ResizeUnused ==
    /\ ratio_type = "None"
    /\ crop_cfgs = <<>>
    /\ card_handler = ActionCardHandler
    /\ extract_ret = NoExtract

InitRatio ==
    /\ \E s \in ClientSizes : client_width = s[1] /\ client_height = s[2]
    /\ ratio_ret = NoRatio
    /\ ResizeUnused
    /\ UpdateUnused
    /\ FilterUnused
    /\ TaskUnused
    /\ HashUnused
    /\ LoopUnused

CallGetRatioType ==
    /\ ratio_ret = NoRatio
    /\ ratio_ret' = GetRatioType(client_width, client_height)
    /\ UNCHANGED <<client_width, client_height, ratio_type, crop_cfgs,
                   card_handler, extract_ret>>
    /\ UNCHANGED <<update_vars, filter_vars, task_vars, hash_vars, loop_vars>>

NextRatio == CallGetRatioType

SpecRatio == InitRatio /\ [][NextRatio]_vars

\* The bucket each named resolution is listed under in REGIONS.
ListedUnder ==
    [s \in NamedSizes \ { <<3240, 1080>> } |->
        CASE s \in { <<1920, 1080>>, <<2560, 1440>> } -> "E16_9"
          [] s \in { <<1920, 1200>>, <<1680, 1050>> } -> "E16_10"
          [] s \in { <<2560, 1080>>, <<2048, 864>> }  -> "E64_27"
          [] s \in { <<3440, 1440>>, <<2150, 900>> }  -> "E43_18"
          [] s \in { <<3840, 1600>>, <<1920, 800>> }  -> "E12_5"]

\* The buckets whose nominal ratio is within 0.005 of width/height, in exact
\* arithmetic.
BucketsWithin(w, h) ==
    { rt \in RatioTypes :
        LET pq == Nominal[rt]
        IN  /\ h > 0
            /\ EPSILON.den * Abs(pq[2] * w - pq[1] * h)
                  < EPSILON.num * pq[2] * h }

\* C13: GetRatioType returns the bucket whose nominal ratio is within 0.005
\* of client_width/client_height, and every resolution named in the comments
\* of REGIONS gets the bucket it is listed under (1920x1080 gets 16:9,
\* 2560x1080 gets 64:27).
C13_BucketWithinEpsilon ==
    ratio_ret.raised = "None"
    => /\ \A rt \in BucketsWithin(client_width, client_height) :
            ratio_ret.ratio_type = rt
       /\ <<client_width, client_height>> \in DOMAIN ListedUnder
            => ratio_ret.ratio_type
                 = ListedUnder[<<client_width, client_height>>]

\* C13's case: 3440 x 1440 resolved to 43:18, the bucket between 64:27 and
\* 12:5.
C13_Witness ==
    /\ client_width = 3440
    /\ client_height = 1440
    /\ ratio_ret.raised = "None"
    /\ ratio_ret.ratio_type = "E43_18"
    /\ BucketsWithin(client_width, client_height) = { "E43_18" }

\* C14: for every client width and height GetRatioType returns a bucket and
\* raises nothing; when no bucket is within epsilon it returns 16:9 and logs
\* exactly one UNSUPPORTED_RATIO event, and when one is it logs nothing.
C14_NeverFatal ==
    ratio_ret # NoRatio
    => /\ ratio_ret.raised = "None"
       /\ ratio_ret.ratio_type \in RatioTypes
       /\ IF BucketsWithin(client_width, client_height) = {}
            THEN /\ ratio_ret.ratio_type = "E16_9"
                 /\ Len(ratio_ret.logged) = 1
                 /\ ratio_ret.logged[1].type = "UNSUPPORTED_RATIO"
            ELSE ratio_ret.logged = <<>>

(***************************************************************************)
(* Crop boxes.  CardPlayedTask.OnResize turns the fractions of its region  *)
(* into a pixel box and hands it to its ActionCardHandler, which computes  *)
(* the three feature sub-boxes and allocates the feature buffer;           *)
(* ExtractCardFeatures copies the three sub-boxes into three cells of the  *)
(* buffer.  Fractions are kept as integers over a denominator.             *)
(***************************************************************************)
\* round(num / den) for num >= 0 and den > 0: to the nearest integer, a half
\* to the even one.
round(num, den) ==
    LET q == num \div den
        r == num % den
    IN  IF 2 * r > den \/ (2 * r = den /\ q % 2 = 1) THEN q + 1 ELSE q

\* class CropBox and its properties width and height.
CropBox(left, top, right, bottom) ==
    [left |-> left, top |-> top, right |-> right, bottom |-> bottom]

width(box)  == box.right - box.left
height(box) == box.bottom - box.top

\* The denominators of the fractions of REGIONS and of the crop configuration.
RegionDen == 10000
CropDen   == 100

\* REGIONS, the two regions CardPlayedTask reads: (left, top, width, height)
\* in 1/10000 of the client size.
REGIONS ==
    [E16_9  |-> [MY_PLAYED |-> <<1225, 1755, 1400, 4270>>,
                 OP_PLAYED |-> <<7380, 1755, 1400, 4270>>],
     E16_10 |-> [MY_PLAYED |-> <<1490, 2285, 1305, 3565>>,
                 OP_PLAYED |-> <<7215, 2285, 1305, 3565>>],
     E64_27 |-> [MY_PLAYED |-> <<2170, 1755, 1050, 4270>>,
                 OP_PLAYED |-> <<6785, 1755, 1050, 4270>>],
     E43_18 |-> [MY_PLAYED |-> <<2195, 1755, 1045, 4275>>,
                 OP_PLAYED |-> <<6776, 1755, 1045, 4275>>],
     E12_5  |-> [MY_PLAYED |-> <<2205, 1755, 1045, 4270>>,
                 OP_PLAYED |-> <<6765, 1755, 1045, 4270>>]]

\* A faulty region box: right and bottom are the width and the height.
RegionBoxNoOffset(event, cw, ch, rt) ==
    LET region_type == IF event = "OP_PLAYED" THEN "OP_PLAYED" ELSE "MY_PLAYED"
        box == REGIONS[rt][region_type]
        left == round(cw * box[1], RegionDen)
        top  == round(ch * box[2], RegionDen)
        w    == round(cw * box[3], RegionDen)
        h    == round(ch * box[4], RegionDen)
    IN  CropBox(left, top, w, h)

\* CardPlayedTask.OnResize: the box passed to card_handler.OnResize.
RegionBox(event, cw, ch, rt) ==
    LET region_type == IF event = "OP_PLAYED" THEN "OP_PLAYED" ELSE "MY_PLAYED"
        box == REGIONS[rt][region_type]
        left == round(cw * box[1], RegionDen)
        top  == round(ch * box[2], RegionDen)
        w    == round(cw * box[3], RegionDen)
        h    == round(ch * box[4], RegionDen)
    IN  CropBox(left, top, left + w, top + h)

\* The crop configuration: three boxes (left, top, width, height) in 1/100 of
\* the card region, laid out as in the figure of _ResizeFeatureCrops: box 1
\* is the upper part of a column as high as box 0 and box 2, right below
\* box 1, the rest of that column.
CropOrigins == { <<0, 0>>, <<10, 20>> }
CropWidths  == { 40, 55 }
CropHeights == { 25, 55 }

CropCfgs ==
    { << <<o0[1], o0[2], w0, hs[1]>>, <<o1[1], o1[2], w1, hs[2]>>,
         <<o1[1], o1[2] + hs[2], w1, hs[1] - hs[2]>> >> :
        o0 \in CropOrigins, o1 \in CropOrigins,
        w0 \in CropWidths, w1 \in CropWidths,
        hs \in { p \in CropHeights \X CropHeights : p[2] <= p[1] } }

\* A faulty _ResizeFeatureCrops: the height of sub-box 2 is rounded from its
\* own fraction.
ResizeFeatureCropsOwnHeight(cfgs, w, h) ==
    LET l0 == round(cfgs[1][1] * w, CropDen)
        t0 == round(cfgs[1][2] * h, CropDen)
        w0 == round(cfgs[1][3] * w, CropDen)
        h0 == round(cfgs[1][4] * h, CropDen)
        l1 == round(cfgs[2][1] * w, CropDen)
        t1 == round(cfgs[2][2] * h, CropDen)
        w1 == round(cfgs[2][3] * w, CropDen)
        h1 == round(cfgs[2][4] * h, CropDen)
        l2 == round(cfgs[3][1] * w, CropDen)
        t2 == round(cfgs[3][2] * h, CropDen)
        w2 == w1
        h2 == round(cfgs[3][4] * h, CropDen)
    IN  << CropBox(l0, t0, l0 + w0, t0 + h0),
           CropBox(l1, t1, l1 + w1, t1 + h1),
           CropBox(l2, t2, l2 + w2, t2 + h2) >>

\* A faulty _ResizeFeatureCrops: the height of sub-box 2 is h1 - h0.
ResizeFeatureCropsSwapped(cfgs, w, h) ==
    LET l0 == round(cfgs[1][1] * w, CropDen)
        t0 == round(cfgs[1][2] * h, CropDen)
        w0 == round(cfgs[1][3] * w, CropDen)
        h0 == round(cfgs[1][4] * h, CropDen)
        l1 == round(cfgs[2][1] * w, CropDen)
        t1 == round(cfgs[2][2] * h, CropDen)
        w1 == round(cfgs[2][3] * w, CropDen)
        h1 == round(cfgs[2][4] * h, CropDen)
        l2 == round(cfgs[3][1] * w, CropDen)
        t2 == round(cfgs[3][2] * h, CropDen)
        w2 == w1
        h2 == h1 - h0
    IN  << CropBox(l0, t0, l0 + w0, t0 + h0),
           CropBox(l1, t1, l1 + w1, t1 + h1),
           CropBox(l2, t2, l2 + w2, t2 + h2) >>

\* ActionCardHandler._ResizeFeatureCrops(width, height): self.feature_crops.
ResizeFeatureCrops(cfgs, w, h) ==
    LET l0 == round(cfgs[1][1] * w, CropDen)
        t0 == round(cfgs[1][2] * h, CropDen)
        w0 == round(cfgs[1][3] * w, CropDen)
        h0 == round(cfgs[1][4] * h, CropDen)
        l1 == round(cfgs[2][1] * w, CropDen)
        t1 == round(cfgs[2][2] * h, CropDen)
        w1 == round(cfgs[2][3] * w, CropDen)
        h1 == round(cfgs[2][4] * h, CropDen)
        l2 == round(cfgs[3][1] * w, CropDen)
        t2 == round(cfgs[3][2] * h, CropDen)
        w2 == w1
        h2 == h0 - h1
    IN  << CropBox(l0, t0, l0 + w0, t0 + h0),
           CropBox(l1, t1, l1 + w1, t1 + h1),
           CropBox(l2, t2, l2 + w2, t2 + h2) >>

\* ActionCardHandler.OnResize(crop_box): the handler afterwards.
HandlerOnResize(cfgs, crop_box) ==
    LET feature_crops == ResizeFeatureCrops(cfgs, width(crop_box),
                                            height(crop_box))
        feature_buffer_width  == width(feature_crops[1]) + width(feature_crops[2])
        feature_buffer_height == height(feature_crops[1])
    IN  [crop_box       |-> << crop_box >>,
         feature_crops  |-> feature_crops,
         feature_buffer |-> << [height |-> feature_buffer_height,
                                width  |-> feature_buffer_width] >>]

\* a[lo:hi] on an axis of n entries, for lo, hi >= 0: the rows or columns
\* selected, as a half-open interval.
Slice(lo, hi, n) ==
    [lo |-> Min(lo, n), hi |-> Max(Min(lo, n), Min(hi, n))]

SliceLen(s) == s.hi - s.lo

\* The shape (rows, columns) of a block of rows and columns.
Shape(rows, cols) == <<SliceLen(rows), SliceLen(cols)>>

\* numpy assigns a block to a cell when each side of the block is the side of
\* the cell or 1.
Broadcasts(src, dst) == \A k \in 1 .. 2 : src[k] = dst[k] \/ src[k] = 1

\* ActionCardHandler.ExtractCardFeatures on a frame of frame_height rows and
\* frame_width columns: the exception raised, if any, and the three cells of
\* the feature buffer written, each with the shape of the block copied into
\* it.  The hashes taken from the buffer are not modelled.
ExtractCardFeatures(handler, frame_height, frame_width) ==
    IF handler.crop_box = <<>>
      THEN [raised |-> "AttributeError", cells |-> <<>>, sources |-> <<>>]
    ELSE
      LET box   == handler.crop_box[1]
          crops == handler.feature_crops
          buf   == handler.feature_buffer[1]
          region_rows == Slice(box.top, box.bottom, frame_height)
          region_cols == Slice(box.left, box.right, frame_width)
          rh == SliceLen(region_rows)
          rw == SliceLen(region_cols)
          sources == [i \in 1 .. 3 |->
                        Shape(Slice(crops[i].top, crops[i].bottom, rh),
                              Slice(crops[i].left, crops[i].right, rw))]
          cells ==
            << [rows |-> Slice(0, height(crops[1]), buf.height),
                cols |-> Slice(0, width(crops[1]), buf.width)],
               [rows |-> Slice(0, height(crops[2]), buf.height),
                cols |-> Slice(width(crops[1]), buf.width, buf.width)],
               [rows |-> Slice(height(crops[2]), buf.height, buf.height),
                cols |-> Slice(width(crops[1]), buf.width, buf.width)] >>
      IN  IF \E i \in 1 .. 3 :
                ~Broadcasts(sources[i], Shape(cells[i].rows, cells[i].cols))
            THEN [raised |-> "ValueError", cells |-> <<>>, sources |-> <<>>]
          ELSE IF buf.height = 0 \/ buf.width = 0
            THEN [raised |-> "cv2.error", cells |-> cells, sources |-> sources]
          ELSE [raised |-> "None", cells |-> cells, sources |-> sources]

\* One CardPlayedTask with its handler, resized for any client size and any
\* ratio bucket, any number of times.
InitResize ==
    /\ event_type \in { "MY_PLAYED", "OP_PLAYED" }
    /\ crop_cfgs \in CropCfgs
    /\ card_handler = ActionCardHandler
    /\ client_width = 0
    /\ client_height = 0
    /\ ratio_type = "None"
    /\ ratio_ret = NoRatio
    /\ extract_ret = NoExtract
    /\ task = "CardPlayedTask"
    /\ defaults = [window_size |-> 0, valid_count |-> 0, window_min_count |-> 0]
    /\ filter = NoFilter
    /\ fed = <<>>
    /\ out = -1
    /\ resized = FALSE
    /\ card_id_signal = -1
    /\ logged = <<>>
    /\ error = "None"
    /\ extras = <<>>
    /\ UpdateUnused
    /\ HashUnused
    /\ LoopUnused

\* CardPlayedTask.OnResize(client_width, client_height, ratio_type).
PlayedOnResize ==
    /\ \E s \in NamedSizes, rt \in RatioTypes :
        /\ client_width' = s[1]
        /\ client_height' = s[2]
        /\ ratio_type' = rt
        /\ card_handler' = HandlerOnResize(crop_cfgs,
                                           RegionBox(event_type, s[1], s[2], rt))
    /\ extract_ret' = NoExtract
    /\ UNCHANGED <<ratio_ret, crop_cfgs>>
    /\ UNCHANGED <<update_vars, filter_vars, task_vars, hash_vars, loop_vars>>

\* ExtractCardFeatures on a frame of the client's size.
Extract ==
    /\ extract_ret = NoExtract
    /\ extract_ret' = ExtractCardFeatures(card_handler, client_height,
                                          client_width)
    /\ UNCHANGED <<client_width, client_height, ratio_ret, ratio_type,
                   crop_cfgs, card_handler>>
    /\ UNCHANGED <<update_vars, filter_vars, task_vars, hash_vars, loop_vars>>

NextResize == PlayedOnResize \/ Extract

SpecResize == InitResize /\ [][NextResize]_vars

\* A box has its right edge at or after its left edge and its bottom edge at
\* or after its top edge.
WellFormed(box) == box.right >= box.left /\ box.bottom >= box.top

\* C15: after any sequence of resizes the region box CardPlayedTask.OnResize
\* built and the three feature sub-boxes _ResizeFeatureCrops built satisfy
\* right >= left and bottom >= top, and sub-box 2 has height h0 - h1.
C15_BoxesWellFormed ==
    card_handler.crop_box # <<>>
    => /\ WellFormed(card_handler.crop_box[1])
       /\ \A i \in 1 .. 3 : WellFormed(card_handler.feature_crops[i])
       /\ height(card_handler.feature_crops[3])
            = height(card_handler.feature_crops[1])
                - height(card_handler.feature_crops[2])

\* C15's case: the OP_PLAYED region at 1920 x 1080, whose left edge is far
\* beyond its width, with sub-box 1 lower than sub-box 0.
C15_Witness ==
    /\ event_type = "OP_PLAYED"
    /\ client_width = 1920
    /\ ratio_type = "E16_9"
    /\ card_handler.crop_box # <<>>
    /\ card_handler.crop_box[1].left > width(card_handler.crop_box[1])
    /\ height(card_handler.feature_crops[3]) > 0

\* The area of a cell and whether two cells share a pixel.
Area(cell) == SliceLen(cell.rows) * SliceLen(cell.cols)

Overlap(c, d) ==
    /\ Max(c.rows.lo, d.rows.lo) < Min(c.rows.hi, d.rows.hi)
    /\ Max(c.cols.lo, d.cols.lo) < Min(c.cols.hi, d.cols.hi)

\* C16: after OnResize(crop_box) each sub-box is the configured fractions
\* times crop_box.width / crop_box.height, rounded, with sub-box 2 as wide as
\* sub-box 1 and h0 - h1 high, and the feature buffer is as high as sub-box 0
\* and as wide as sub-boxes 0 and 1 together; the cells ExtractCardFeatures
\* writes are cell 0 on the left over the full height, cell 1 top right and
\* cell 2 below it, each of the size of its sub-box, and they tile the buffer
\* with no gap and no overlap.
C16_BufferTiled ==
    card_handler.crop_box # <<>>
    => LET box   == card_handler.crop_box[1]
           crops == card_handler.feature_crops
           buf   == card_handler.feature_buffer[1]
           cells == extract_ret.cells
       IN  /\ \A i \in 1 .. 3 :
                /\ crops[i].left = round(crop_cfgs[i][1] * width(box), CropDen)
                /\ crops[i].top  = round(crop_cfgs[i][2] * height(box), CropDen)
           /\ \A i \in 1 .. 2 :
                /\ width(crops[i])  = round(crop_cfgs[i][3] * width(box), CropDen)
                /\ height(crops[i]) = round(crop_cfgs[i][4] * height(box), CropDen)
           /\ width(crops[3]) = width(crops[2])
           /\ height(crops[3]) = height(crops[1]) - height(crops[2])
           /\ buf.height = height(crops[1])
           /\ buf.width  = width(crops[1]) + width(crops[2])
           /\ extract_ret # NoExtract
                => /\ extract_ret.raised = "None"
                   /\ \A i \in 1 .. 3 :
                        /\ SliceLen(cells[i].rows) = height(crops[i])
                        /\ SliceLen(cells[i].cols) = width(crops[i])
                   /\ cells[1].rows = [lo |-> 0, hi |-> buf.height]
                   /\ cells[1].cols.lo = 0
                   /\ cells[2].rows.lo = 0
                   /\ cells[2].cols.hi = buf.width
                   /\ cells[3].rows.hi = buf.height
                   /\ cells[3].cols.hi = buf.width
                   /\ \A i, j \in 1 .. 3 : i # j => ~Overlap(cells[i], cells[j])
                   /\ Area(cells[1]) + Area(cells[2]) + Area(cells[3])
                        = buf.height * buf.width

\* C16's case: a second resize to another client size, then an extraction
\* into three cells that are not empty, where the heights of sub-boxes 1 and
\* 2 are not the fractions of the region height rounded one by one.
C16_Witness ==
    /\ card_handler.crop_box # <<>>
    /\ client_width = 2560
    /\ client_height = 1080
    /\ extract_ret.raised = "None"
    /\ \A i \in 1 .. 3 : Area(extract_ret.cells[i]) > 0
    /\ height(card_handler.feature_crops[3])
         # round(crop_cfgs[3][4] * height(card_handler.crop_box[1]), CropDen)

(***************************************************************************)
(* The recognition loop: two CardPlayedTask objects (MY_PLAYED and         *)
(* OP_PLAYED) and one CardSelectTask over one database.  The frame manager *)
(* that drives them is not part of these sources; as section 5 of the      *)
(* design describes it, a change of the client's size is followed by       *)
(* OnResize on every task before any further tick, no task ticks while the *)
(* resolution is unresolved, and every frame is ticked by the tasks one    *)
(* after the other.  Each step is one call on one task.                    *)
(***************************************************************************)
\* Frames that are followed, cards of a CardSelectTask and changes of the
\* client's size.
MaxTicks   == 2
MaxSelect  == 2
MaxResizes == 2

PlayedTasks == { "MY_PLAYED", "OP_PLAYED" }

\* The tasks in the order the frame manager calls them.
TaskList == << "MY_PLAYED", "OP_PLAYED", "CARD_SELECT" >>

\* The client sizes the loop sees.
LoopSizes == { <<1920, 1080>>, <<2560, 1080>> }

\* The configuration of the loop: one setting of the thresholds, of the
\* filter defaults and of the crop boxes.
LoopThresholds == CHOOSE t \in TaskThresholds : TRUE
LoopDefaults ==
    CHOOSE d \in TaskDefaults :
        d.window_size = MaxTaskWindow /\ d.valid_count = 1
                                      /\ d.window_min_count = 1
LoopCropCfgs == CHOOSE c \in CropCfgs : c[2][4] < c[1][4]

\* The frames: one showing card 0 exactly, in both indices, and one showing
\* nothing the indices know.
MatchFrame ==
    LET s == CHOOSE r \in SearchByFeature : r.ids[1] = 0 /\ r.dists[1] = 0
    IN  [a |-> s, d |-> s]
NoMatchFrame ==
    LET s == CHOOSE r \in SearchByFeature : r.dists[1] = MaxDist
    IN  [a |-> s, d |-> s]
LoopFrames == { MatchFrame, NoMatchFrame }

\* CardPlayedTask.__init__(frame_manager, is_op).  ticks and pushes count the
\* calls of Tick and of filter.Filter since the filter was built.
CardPlayedTask(is_op, d) ==
    [event_type     |-> IF is_op THEN "OP_PLAYED" ELSE "MY_PLAYED",
     card_handler   |-> ActionCardHandler,
     filter         |-> CardPlayedFilter(d),
     card_id_signal |-> -1,
     ticks          |-> 0,
     pushes         |-> 0]

\* CardPlayedTask.Reset.
CardPlayedTask_Reset(t, d) ==
    [t EXCEPT !.filter = CardPlayedFilter(d), !.ticks = 0, !.pushes = 0]

\* A faulty OnResize: the handler is resized only while it has no crop box.
CardPlayedTask_OnResizeOnce(t, cw, ch, rt) ==
    IF t.card_handler.crop_box # <<>> THEN t
    ELSE [t EXCEPT !.card_handler =
            HandlerOnResize(crop_cfgs, RegionBox(t.event_type, cw, ch, rt))]

\* CardPlayedTask.OnResize(client_width, client_height, ratio_type).
CardPlayedTask_OnResize(t, cw, ch, rt) ==
    [t EXCEPT !.card_handler =
        HandlerOnResize(crop_cfgs, RegionBox(t.event_type, cw, ch, rt))]

\* CardPlayedTask.Tick on a frame of the client's size: the task afterwards
\* and the outcome of the call.  Nothing in Tick catches an exception, so one
\* raised while the features are extracted or matched leaves Tick before
\* filter.Filter is called.
CardPlayedTask_Tick(t, frame) ==
    LET e == ExtractCardFeatures(t.card_handler, client_height, client_width)
        u == Update(frame.a.ids, frame.a.dists, frame.d.ids, frame.d.dists,
                    threshold, strict_threshold)
    IN  IF e.raised # "None"
          THEN { [task       |-> [t EXCEPT !.ticks = @ + 1],
                  failure    |-> e.raised,
                  raised     |-> e.raised,
                  samples    |-> <<>>,
                  extracted  |-> << t.card_handler >>] }
        ELSE { [task       |-> [t EXCEPT !.filter = r.filter,
                                         !.card_id_signal = r.out,
                                         !.ticks = @ + 1,
                                         !.pushes = @ + 1],
                failure    |-> "None",
                raised     |-> IF r.out >= 0 /\ CardNameRaises(r.out)
                                 THEN "IndexError" ELSE "None",
                samples    |-> << <<u.card_id, u.dist>> >>,
                extracted  |-> << t.card_handler >>] :
               r \in Filter(t.filter, u.card_id, u.dist) }

(***************************************************************************)
(* Counter.  card_select.py imports the name from ..feature, which does    *)
(* not define it; the calls made on it (Counter(list), in, del, - and      *)
(* items()) are those of Python's collections.Counter, which is what the   *)
(* name is taken to be.  A counter is the sequence of its (key, count)     *)
(* pairs in insertion order.                                               *)
(***************************************************************************)
Keys(counter) == { counter[i][1] : i \in DOMAIN counter }

\* counter[key]: the count of a key, 0 for a missing one.
Get(counter, key) ==
    IF key \in Keys(counter)
      THEN counter[CHOOSE i \in DOMAIN counter : counter[i][1] = key][2]
      ELSE 0

\* Counter(iterable): the elements in the order of their first occurrence,
\* each with the number of its occurrences.
Counter(iterable) ==
    LET first == { i \in DOMAIN iterable :
                     \A j \in 1 .. (i - 1) : iterable[j] # iterable[i] }
        nth(k) == CHOOSE i \in first :
                     Cardinality({ j \in first : j < i }) = k - 1
    IN  [k \in 1 .. Cardinality(first) |->
            << iterable[nth(k)],
               Cardinality({ j \in DOMAIN iterable :
                               iterable[j] = iterable[nth(k)] }) >>]

\* del counter[key].
Del(counter, key) == SelectSeq(counter, LAMBDA p : p[1] # key)

\* Counter.__sub__: the counts are subtracted and only the keys with a
\* positive count are kept; a key of other alone is kept when its count in
\* other is negative.
Counter_sub(self, other) ==
    LET mine   == [i \in DOMAIN self |->
                     << self[i][1], self[i][2] - Get(other, self[i][1]) >>]
        theirs == SelectSeq(other,
                            LAMBDA p : p[1] \notin Keys(self) /\ p[2] < 0)
    IN  SelectSeq(mine, LAMBDA p : p[2] > 0)
          \o [i \in DOMAIN theirs |-> << theirs[i][1], 0 - theirs[i][2] >>]

\* [value] * count.
Repeat(value, count) == [i \in 1 .. count |-> value]

\* CardSelectTask.__init__ and _Reset.  ticks counts the calls of Tick since
\* the filters were built, pushes the calls of each filter's Filter and outs
\* holds the values each filter returned.
CardSelectTask(n_cards, prev_cards) ==
    [n_cards     |-> n_cards,
     prev_counts |-> Counter(prev_cards),
     cards       |-> [i \in 1 .. n_cards |-> -1],
     filters     |-> [i \in 1 .. n_cards |-> CardSelectFilter],
     ticks       |-> 0,
     pushes      |-> [i \in 1 .. n_cards |-> 0],
     outs        |-> [i \in 1 .. n_cards |-> <<>>]]

\* A faulty Reset: the counts of the previous cards are kept.
CardSelectTask_ResetKeepCounts(t) ==
    [CardSelectTask(t.n_cards, <<>>) EXCEPT !.prev_counts = t.prev_counts]

\* CardSelectTask.Reset.
CardSelectTask_Reset(t) == CardSelectTask(t.n_cards, <<>>)

\* The parameters of ActionCardHandler.Update after self, and the keyword
\* arguments of the call in CardSelectTask.Tick.
UpdateParameters     == { "frame_buffer", "db" }
SelectUpdateKeywords == { "threshold", "check_next_dist" }

\* DetectCenterCards: the boxes of the cards found in the centre of the
\* frame, none to MaxSelect of them.
DetectCenterCards ==
    { [i \in 1 .. n |-> CropBox(10 * i, 0, 10 * i + 8, 12)] : n \in 0 .. MaxSelect }

\* One call of self.filters[i].Filter(value, dist=dist) in Tick, and the
\* record of a card returned: the task afterwards.  Of several possible
\* outcomes of Filter one is taken.
SelectFilter(t, i, value, dist, record) ==
    LET r == CHOOSE o \in Filter(t.filters[i], value, dist) : TRUE
    IN  [t EXCEPT !.filters[i] = r.filter,
                  !.pushes[i]  = @ + 1,
                  !.outs[i]    = Append(@, r.out),
                  !.cards[i]   = IF record /\ r.out >= 0 THEN r.out ELSE @]

\* Tick with a wrong number of boxes: the null value is passed to the filters
\* from i on.
RECURSIVE SelectNullTick(_, _)
SelectNullTick(t, i) ==
    IF i > t.n_cards THEN t
    ELSE SelectNullTick(SelectFilter(t, i, -1, 0, FALSE), i + 1)

\* The loop of Tick over the boxes, from box i on, once Update has returned.
RECURSIVE SelectBoxes(_, _, _)
SelectBoxes(t, frame, i) ==
    IF i > t.n_cards THEN t
    ELSE LET u == Update(frame.a.ids, frame.a.dists, frame.d.ids,
                         frame.d.dists, threshold, strict_threshold)
         IN  SelectBoxes(SelectFilter(t, i, u.card_id, u.dist, TRUE),
                         frame, i + 1)

\* CardSelectTask.Tick.  With a box for every card the loop body builds a
\* handler, resizes it to the box and calls Update with the keywords
\* threshold and check_next_dist; Update has no such parameters, so the call
\* raises TypeError before its body runs and the exception leaves Tick.
CardSelectTask_Tick(t, bboxes, frame) ==
    LET num_bboxes == Len(bboxes)
        ticked     == [t EXCEPT !.ticks = @ + 1]
    IN  IF num_bboxes # t.n_cards
          THEN [task      |-> SelectNullTick(ticked, 1),
                failure   |-> "None",
                raised    |-> "None",
                samples   |-> [i \in 1 .. t.n_cards |-> <<-1, 0>>],
                extracted |-> <<>>]
        ELSE IF num_bboxes = 0
          THEN [task |-> ticked, failure |-> "None",
                raised |-> "None", samples |-> <<>>, extracted |-> <<>>]
        ELSE IF ~(SelectUpdateKeywords \subseteq UpdateParameters)
          THEN [task |-> ticked, failure |-> "TypeError",
                raised |-> "TypeError", samples |-> <<>>, extracted |-> <<>>]
        ELSE LET handler == HandlerOnResize(crop_cfgs, bboxes[1])
                 e == ExtractCardFeatures(handler, client_height, client_width)
                 u == Update(frame.a.ids, frame.a.dists, frame.d.ids,
                             frame.d.dists, threshold, strict_threshold)
             IN  IF e.raised # "None"
                   THEN [task |-> ticked, failure |-> e.raised,
                         raised |-> e.raised, samples |-> <<>>,
                         extracted |-> << handler >>]
                 ELSE [task |-> SelectBoxes(ticked, frame, 1),
                       failure |-> "None", raised |-> "None",
                       samples |-> [i \in 1 .. t.n_cards |->
                                      <<u.card_id, u.dist>>],
                       extracted |-> << handler >>]

\* The cards of the entries of a counter whose count, times sign, is
\* positive, each as often as that count: what the loop over diff.items()
\* appends to drawn (sign 1) and to create (sign -1).
RECURSIVE Collect(_, _)
Collect(items, sign) ==
    IF items = <<>> THEN <<>>
    ELSE LET p == Head(items)
         IN  (IF sign * p[2] > 0 THEN Repeat(p[1], sign * p[2]) ELSE <<>>)
               \o Collect(Tail(items), sign)

\* CardSelectTask.Flush(need_reset): the task afterwards, the events logged
\* and the exception raised.  The names are looked up while the arguments of
\* LogInfo are built, so a lookup that raises ends Flush before the event is
\* logged and before the reset.
CardSelectTask_Flush(t, need_reset) ==
    LET counted    == Counter(t.cards)
        undetected == -1 \in Keys(counted)
        cur_counts == IF undetected THEN Del(counted, -1) ELSE counted
        diff       == Counter_sub(cur_counts, t.prev_counts)
        drawn      == Collect(diff, 1)
        create     == Collect(diff, -1)
        Names(cs)  == [i \in DOMAIN cs |-> CardName(cs[i])]
        Raises(cs) == \E i \in DOMAIN cs : CardNameRaises(cs[i])
        log_error  == IF undetected
                        THEN << [type     |-> "LogError",
                                 detected |-> t.cards] >>
                      ELSE <<>>
        log_drawn  == IF drawn # <<>>
                        THEN << [type  |-> "MY_DRAWN", cards |-> drawn,
                                 names |-> Names(drawn)] >>
                      ELSE <<>>
        log_create == IF create # <<>>
                        THEN << [type  |-> "MY_CREATE_DECK", cards |-> create,
                                 names |-> Names(create)] >>
                      ELSE <<>>
    IN  IF Raises(drawn)
          THEN [task |-> t, logged |-> log_error, raised |-> "IndexError"]
        ELSE IF Raises(create)
          THEN [task |-> t, logged |-> log_error \o log_drawn,
                raised |-> "IndexError"]
        ELSE [task   |-> IF need_reset THEN CardSelectTask_Reset(t) ELSE t,
              logged |-> log_error \o log_drawn \o log_create,
              raised |-> "None"]

\* The frame manager between two events: nothing left to call.
Idle(frames, resizes) ==
    [op |-> "None", tasks |-> <<>>, frame |-> NoMatchFrame,
     frame_count |-> frames, resize_count |-> resizes]

InitLoop ==
    /\ threshold = LoopThresholds[1]
    /\ strict_threshold = LoopThresholds[2]
    /\ search_a = [ids |-> <<>>, dists |-> <<>>]
    /\ search_d = [ids |-> <<>>, dists |-> <<>>]
    /\ ret = NoReturn
    /\ task = "None"
    /\ defaults = LoopDefaults
    /\ filter = NoFilter
    /\ fed = <<>>
    /\ out = -1
    /\ TaskUnused
    /\ HashUnused
    /\ client_width = 0
    /\ client_height = 0
    /\ ratio_ret = NoRatio
    /\ ratio_type = "None"
    /\ crop_cfgs = LoopCropCfgs
    /\ card_handler = ActionCardHandler
    /\ extract_ret = NoExtract
    /\ played = [t \in PlayedTasks |-> CardPlayedTask(t = "OP_PLAYED", defaults)]
    /\ select \in { CardSelectTask(n, <<>>) : n \in 1 .. MaxSelect }
    /\ schedule = Idle(0, 0)
    /\ last = NoCall

\* What no step of the loop changes, and what no call on a task changes.
LoopFrame ==
    /\ UNCHANGED <<update_vars, filter_vars, task_vars, hash_vars>>
    /\ UNCHANGED <<ratio_ret, crop_cfgs, card_handler, extract_ret>>

ClientUnchanged == UNCHANGED <<client_width, client_height, ratio_type>>

\* The call at the head of the schedule has been made.
Done == [schedule EXCEPT !.tasks = Tail(@),
                         !.op = IF Len(schedule.tasks) = 1 THEN "None" ELSE @]

\* The client's size changes: every task is due an OnResize.
ClientResize ==
    /\ schedule.tasks = <<>>
    /\ schedule.resize_count < MaxResizes
    /\ \E s \in LoopSizes :
        /\ s # <<client_width, client_height>>
        /\ client_width' = s[1]
        /\ client_height' = s[2]
        /\ ratio_type' = GetRatioType(s[1], s[2]).ratio_type
    /\ schedule' = [schedule EXCEPT !.op = "OnResize", !.tasks = TaskList,
                                    !.resize_count = @ + 1]
    /\ last' = [NoCall EXCEPT !.task = "FrameManager", !.op = "ClientResize"]
    /\ UNCHANGED <<played, select>>
    /\ LoopFrame

\* A frame is captured: every task is due a Tick on it.  No frame is ticked
\* while the resolution is unresolved.
NewFrame ==
    /\ schedule.tasks = <<>>
    /\ client_width > 0 /\ client_height > 0
    /\ schedule.frame_count < MaxTicks
    /\ \E frame \in LoopFrames :
        schedule' = [schedule EXCEPT !.op = "Tick", !.tasks = TaskList,
                                    !.frame = frame, !.frame_count = @ + 1]
    /\ last' = [NoCall EXCEPT !.task = "FrameManager", !.op = "NewFrame"]
    /\ UNCHANGED <<played, select>>
    /\ ClientUnchanged
    /\ LoopFrame

\* The task the frame manager calls next, and how.
Due(op, t) ==
    /\ schedule.tasks # <<>>
    /\ schedule.op = op
    /\ Head(schedule.tasks) = t

\* OnResize on a CardPlayedTask.
LoopPlayedOnResize(t) ==
    /\ Due("OnResize", t)
    /\ played' = [played EXCEPT ![t] =
                    CardPlayedTask_OnResize(played[t], client_width,
                                            client_height, ratio_type)]
    /\ schedule' = Done
    /\ last' = [NoCall EXCEPT !.task = t, !.op = "OnResize"]
    /\ UNCHANGED select
    /\ ClientUnchanged
    /\ LoopFrame

\* OnResize on the CardSelectTask: it keeps no handler of its own.
LoopSelectOnResize ==
    /\ Due("OnResize", "CARD_SELECT")
    /\ schedule' = Done
    /\ last' = [NoCall EXCEPT !.task = "CARD_SELECT", !.op = "OnResize"]
    /\ UNCHANGED <<played, select>>
    /\ ClientUnchanged
    /\ LoopFrame

\* A faulty Reset: the filter is shared by the CardPlayedTask objects.
LoopPlayedResetShared(t) ==
    /\ played[t].ticks > 0
    /\ played' = [u \in PlayedTasks |-> CardPlayedTask_Reset(played[u], defaults)]
    /\ last' = [NoCall EXCEPT !.task = t, !.op = "Reset"]
    /\ UNCHANGED <<select, schedule>>
    /\ ClientUnchanged
    /\ LoopFrame

\* Reset on a CardPlayedTask that has ticked.
LoopPlayedReset(t) ==
    /\ played[t].ticks > 0
    /\ played' = [played EXCEPT ![t] = CardPlayedTask_Reset(played[t], defaults)]
    /\ last' = [NoCall EXCEPT !.task = t, !.op = "Reset"]
    /\ UNCHANGED <<select, schedule>>
    /\ ClientUnchanged
    /\ LoopFrame

\* Reset on the CardSelectTask once it has ticked.
LoopSelectReset ==
    /\ select.ticks > 0
    /\ select' = CardSelectTask_Reset(select)
    /\ last' = [NoCall EXCEPT !.task = "CARD_SELECT", !.op = "Reset"]
    /\ UNCHANGED <<played, schedule>>
    /\ ClientUnchanged
    /\ LoopFrame

\* Tick on a CardPlayedTask.
LoopPlayedTick(t) ==
    /\ Due("Tick", t)
    /\ \E r \in CardPlayedTask_Tick(played[t], schedule.frame) :
        /\ played' = [played EXCEPT ![t] = r.task]
        /\ last' = [task |-> t, op |-> "Tick", failure |-> r.failure,
                    raised |-> r.raised, num_bboxes |-> 0,
                    samples |-> r.samples, extracted |-> r.extracted,
                    need_reset |-> FALSE]
    /\ schedule' = Done
    /\ UNCHANGED select
    /\ ClientUnchanged
    /\ LoopFrame

\* Tick on the CardSelectTask.
LoopSelectTick ==
    /\ Due("Tick", "CARD_SELECT")
    /\ \E bboxes \in DetectCenterCards :
        LET r == CardSelectTask_Tick(select, bboxes, schedule.frame)
        IN  /\ select' = r.task
            /\ last' = [task |-> "CARD_SELECT", op |-> "Tick",
                        failure |-> r.failure, raised |-> r.raised,
                        num_bboxes |-> Len(bboxes), samples |-> r.samples,
                        extracted |-> r.extracted, need_reset |-> FALSE]
    /\ schedule' = Done
    /\ UNCHANGED played
    /\ ClientUnchanged
    /\ LoopFrame

NextLoop ==
    \/ ClientResize
    \/ NewFrame
    \/ \E t \in PlayedTasks : LoopPlayedOnResize(t)
    \/ LoopSelectOnResize
    \/ \E t \in PlayedTasks : LoopPlayedTick(t)
    \/ LoopSelectTick
    \/ \E t \in PlayedTasks : LoopPlayedReset(t)
    \/ LoopSelectReset

SpecLoop == InitLoop /\ [][NextLoop]_vars

\* The filters of the task the last call was made on.
NumFilters(t) == IF t \in PlayedTasks THEN 1 ELSE select.n_cards

\* C11: every Tick passes exactly one sample to each filter of its task (-1
\* to each filter of the CardSelectTask when the boxes found are not n_cards),
\* so every filter of a task has received as many samples as the task has
\* ticked.
C11_OneSamplePerTick ==
    /\ \A t \in PlayedTasks : played[t].pushes = played[t].ticks
    /\ \A i \in 1 .. select.n_cards : select.pushes[i] = select.ticks
    /\ last.op = "Tick"
         => /\ Len(last.samples) = NumFilters(last.task)
            /\ (last.task = "CARD_SELECT" /\ last.num_bboxes # select.n_cards)
                 => \A i \in 1 .. select.n_cards : last.samples[i][1] = -1

\* C12: a Tick in which the extraction or the matching fails raises nothing
\* and passes the null sample to every filter of its task.
C12_FailureIsNoDetection ==
    (last.op = "Tick" /\ last.failure # "None")
    => /\ last.raised = "None"
       /\ Len(last.samples) = NumFilters(last.task)
       /\ \A i \in 1 .. Len(last.samples) : last.samples[i][1] = -1

C20_NoSharedState ==
    [][ /\ \A t \in PlayedTasks : last'.task # t => played'[t] = played[t]
        /\ last'.task # "CARD_SELECT" => select' = select
        /\ last'.op = "Tick" => extras' = extras
      ]_vars

\* C20's case: the MY_PLAYED task has just been reset while the OP_PLAYED
\* task holds a stable card and samples and the CardSelectTask holds samples.
C20_Witness ==
    /\ last.task = "MY_PLAYED"
    /\ last.op = "Reset"
    /\ played["MY_PLAYED"].filter.window = <<>>
    /\ played["OP_PLAYED"].filter.window # <<>>
    /\ played["OP_PLAYED"].filter.prev_value = 0
    /\ select.filters[1].window # <<>>

\* C24: with strict_threshold <= threshold, the id Update returns is the
\* a-hash nearest id, the d-hash nearest id or -1; an id >= 0 comes with a
\* distance <= threshold that is the distance of a hash variant whose nearest
\* id it is; the id -1 comes with a distance > strict_threshold.
C24_ResultEnvelope ==
    (Called /\ strict_threshold <= threshold)
        => /\ ret.card_id \in { card_id_a, card_id_d, -1 }
           /\ ret.card_id >= 0
                => /\ ret.dist <= threshold
                   /\ \/ (ret.card_id = card_id_a /\ ret.dist = dist_a)
                      \/ (ret.card_id = card_id_d /\ ret.dist = dist_d)
           /\ ret.card_id = -1 => ret.dist > strict_threshold

\* C24's case: an id accepted by agreement above the strict threshold, the
\* a-hash distance being the smaller one and the one reported.
C24_Witness ==
    /\ Called
    /\ strict_threshold < threshold
    /\ dist_a > strict_threshold
    /\ dist_d > dist_a
    /\ ret.card_id >= 0
    /\ ret.dist = dist_a

\* The bucket tests of GetRatioType that succeed on width/height.
TestsPassed(w, h) ==
    { rt \in RatioTypes : h > 0 /\ Within(w, h, Nominal[rt], EPSILON) }

\* The buckets whose nominal ratio is 0.005 away from width/height exactly.
AtEpsilon(w, h) ==
    { rt \in RatioTypes :
        LET pq == Nominal[rt]
        IN  /\ h > 0
            /\ EPSILON.den * Abs(pq[2] * w - pq[1] * h)
                 = EPSILON.num * pq[2] * h }

\* C25: the five windows are disjoint, so at most one bucket test succeeds on
\* any client size and the bucket returned is the one whose test succeeds,
\* whatever the order of the tests; the test is strict, so a ratio exactly
\* 0.005 away from a nominal ratio is unsupported (16:9 with the diagnostic).
C25_DisjointStrictWindows ==
    ratio_ret.raised = "None"
    => /\ Cardinality(TestsPassed(client_width, client_height)) <= 1
       /\ \A rt \in TestsPassed(client_width, client_height) :
            ratio_ret.ratio_type = rt
       /\ AtEpsilon(client_width, client_height) # {}
            => /\ ratio_ret.ratio_type = "E16_9"
               /\ Len(ratio_ret.logged) = 1

\* The canonical id of an index entry: an action card is its own, an extra
\* entry aliases db["extras"][i - num_actions] (Python index 0 is index 1
\* here).
Canonical(i) == IF i < num_actions THEN i ELSE extras[i - num_actions + 1]

\* C21: a non-negative id a CardPlayedTask reports is a canonical action-card
\* id, a valid index into db["actions"]: an accepted extra entry is reported
\* and looked up under the canonical id it aliases, so the lookup of the name
\* succeeds.
C21_CanonicalId ==
    (task = "CardPlayedTask" /\ out >= 0)
        => /\ card_id_signal = Canonical(out)
           /\ card_id_signal \in 0 .. (num_actions - 1)
           /\ error # "IndexError"
           /\ logged # <<>> => logged[1].card_id \in 0 .. (num_actions - 1)

(***************************************************************************)
(* The CardSelectTask on its own: built for one to MaxSelect cards and any *)
(* short list of previous cards, then ticked, flushed and reset in any     *)
(* order.  logged and error hold the events the last call logged and the   *)
(* exception it raised.                                                    *)
(***************************************************************************)
\* Longest list of previous cards a CardSelectTask is built with.
MaxPrev == 2

\* The prev_cards argument of CardSelectTask.__init__.
PrevCards == UNION { [1 .. n -> CardIds] : n \in 0 .. MaxPrev }

InitSelect ==
    /\ threshold = LoopThresholds[1]
    /\ strict_threshold = LoopThresholds[2]
    /\ search_a = [ids |-> <<>>, dists |-> <<>>]
    /\ search_d = [ids |-> <<>>, dists |-> <<>>]
    /\ ret = NoReturn
    /\ task = "CardSelectTask"
    /\ defaults = LoopDefaults
    /\ filter = NoFilter
    /\ fed = <<>>
    /\ out = -1
    /\ TaskUnused
    /\ HashUnused
    /\ client_width = 1920
    /\ client_height = 1080
    /\ ratio_ret = NoRatio
    /\ ratio_type = GetRatioType(1920, 1080).ratio_type
    /\ crop_cfgs = LoopCropCfgs
    /\ card_handler = ActionCardHandler
    /\ extract_ret = NoExtract
    /\ played = <<>>
    /\ select \in { CardSelectTask(n, prev_cards) :
                      n \in 1 .. MaxSelect, prev_cards \in PrevCards }
    /\ schedule = <<>>
    /\ last = NoCall

\* What no call on the CardSelectTask changes.
SelectFrame ==
    /\ UNCHANGED <<update_vars, filter_vars, hash_vars, geometry_vars>>
    /\ UNCHANGED <<event_type, resized, card_id_signal, extras>>
    /\ UNCHANGED <<played, schedule>>

\* Tick on a frame with none to MaxSelect boxes.
SelectTick ==
    /\ select.ticks < MaxTicks
    /\ \E bboxes \in DetectCenterCards, frame \in LoopFrames :
        LET r == CardSelectTask_Tick(select, bboxes, frame)
        IN  /\ select' = r.task
            /\ logged' = <<>>
            /\ error' = r.raised
            /\ last' = [task |-> "CARD_SELECT", op |-> "Tick",
                        failure |-> r.failure, raised |-> r.raised,
                        num_bboxes |-> Len(bboxes), samples |-> r.samples,
                        extracted |-> r.extracted, need_reset |-> FALSE]
    /\ SelectFrame

\* Flush(need_reset).
SelectFlush ==
    /\ \E need_reset \in BOOLEAN :
        LET r == CardSelectTask_Flush(select, need_reset)
        IN  /\ select' = r.task
            /\ logged' = r.logged
            /\ error' = r.raised
            /\ last' = [NoCall EXCEPT !.task = "CARD_SELECT", !.op = "Flush",
                                      !.raised = r.raised,
                                      !.need_reset = need_reset]
    /\ SelectFrame

\* Reset.
SelectReset ==
    /\ select' = CardSelectTask_Reset(select)
    /\ logged' = <<>>
    /\ error' = "None"
    /\ last' = [NoCall EXCEPT !.task = "CARD_SELECT", !.op = "Reset"]
    /\ SelectFrame

NextSelect == SelectTick \/ SelectFlush \/ SelectReset

SpecSelect == InitSelect /\ [][NextSelect]_vars

\* The occurrences of a value in a list.
Occurrences(list, value) ==
    Cardinality({ i \in DOMAIN list : list[i] = value })

\* The cards of the event of a type among the events logged, none when no
\* such event was logged.
Listed(events, type) ==
    LET of_type == SelectSeq(events, LAMBDA e : e.type = type)
    IN  IF of_type = <<>> THEN <<>> ELSE of_type[1].cards

\* The detected cards: self.cards without the -1 entries.
Detected(t) == SelectSeq(t.cards, LAMBDA c : c # -1)

\* C22: Flush lists under MY_DRAWN every card detected more often than
\* prev_cards holds it, as often as the excess, and under MY_CREATE_DECK
\* every card prev_cards holds more often than it is detected, as often as
\* the shortfall.
C22_FlushBothDirections ==
    [][ last'.op = "Flush"
          => \A c \in CardIds :
               LET cur  == Occurrences(Detected(select), c)
                   prev == Get(select.prev_counts, c)
               IN  /\ Occurrences(Listed(logged', "MY_DRAWN"), c)
                        = Max(0, cur - prev)
                   /\ Occurrences(Listed(logged', "MY_CREATE_DECK"), c)
                        = Max(0, prev - cur)
      ]_vars

\* The last non-null value among the values a filter returned, -1 if none.
LastNonNull(outs) ==
    LET set == { i \in DOMAIN outs : outs[i] # -1 }
    IN  IF set = {} THEN -1
        ELSE outs[CHOOSE i \in set : \A j \in set : j <= i]

\* The step is a Reset or a Flush that resets.
Resets ==
    \/ last'.op = "Reset"
    \/ last'.op = "Flush" /\ last'.need_reset /\ last'.raised = "None"

====
